---------------------------- MODULE Spec2Model ----------------------------
(* A state-machine model of aranet_reader.py: the polling loop main_loop,  *)
(* the acquisition read_sensor with its scan / pair / connect / read /     *)
(* disconnect steps, and the adapter recovery reset_bluetooth /            *)
(* power_cycle_bluetooth.  The program is one sequential asyncio flow; pc  *)
(* is its position, one action per stretch of code between two awaits.     *)
(* The BLE transport, the collector, the mailer and the privileged host    *)
(* commands are the environment: each call's outcome is chosen with \E.    *)
EXTENDS Integers, Sequences, FiniteSets, TLC

(***************************************************************************)
(* Bounds of the model                                                     *)
(***************************************************************************)
\* consecutive_failures grows without limit while every reset fails; the
\* environment is made to let a reset or a submit succeed at this value.
MaxTally == 4

(***************************************************************************)
(* Program constants                                                       *)
(***************************************************************************)
max_retries == 3
connect_attempts == 3
disconnect_retry == 3
max_failures_before_reset == 3
max_scans == 3
POLLING_INTERVAL == 1800
ERROR_SLEEP == 30
RESET_SETTLE == 5

(***************************************************************************)
(* Device names are sequences of tokens, so that "equals the target" and   *)
(* "contains the family marker" are different tests.  A device without a   *)
(* name (None or "") has the empty sequence.                               *)
(***************************************************************************)
FAMILY_MARKER == "Aranet4"
TARGET_DEVICE == <<"Aranet4", "1A2B">>

NoDevice == [name |-> <<>>, address |-> "none"]
devTarget == [name |-> TARGET_DEVICE, address |-> "aa"]
devTargetTwin == [name |-> TARGET_DEVICE, address |-> "ee"]
devOtherAranet == [name |-> <<"Aranet4", "9Z9Z">>, address |-> "bb"]
devFamilyOnly == [name |-> <<"Aranet4">>, address |-> "cc"]
devNameless == [name |-> <<>>, address |-> "dd"]
devUnrelated == [name |-> <<"Phone">>, address |-> "ff"]

\* What one BleakScanner.discover pass may return.
ScanResults ==
  { <<>>,
    <<devNameless, devFamilyOnly>>,
    <<devOtherAranet, devUnrelated>>,
    <<devOtherAranet, devTarget>>,
    <<devFamilyOnly, devTarget, devTargetTwin>> }

Contains(marker, name) == \E i \in 1..Len(name) : name[i] = marker

\* line 136: device.name and device.name == CONFIG['TARGET_DEVICE']
IsTargetByFamily(name) == name # <<>> /\ Contains(FAMILY_MARKER, name)
IsTarget(name) == name # <<>> /\ name = TARGET_DEVICE

\* lines 135-138: the first device of the pass that is the target, else None
RECURSIVE FirstMatch(_)
FirstMatch(devices) ==
  IF devices = <<>> THEN NoDevice
  ELSE IF IsTarget(Head(devices).name) THEN Head(devices)
  ELSE FirstMatch(Tail(devices))

(***************************************************************************)
(* parse_current_readings.  Slices of a short buffer are short, not an     *)
(* error; only data[6] raises.  The fixed-point fields are kept as the      *)
(* integers read from the bytes, before the division by 20 and by 10.      *)
(***************************************************************************)
Slice(data, lo, hi) ==
  [i \in 1..(IF Len(data) < hi THEN (IF Len(data) < lo THEN 0 ELSE Len(data) - lo)
             ELSE hi - lo) |-> data[lo + i]]

RECURSIVE FromBytesLittle(_)
FromBytesLittle(bs) ==
  IF bs = <<>> THEN 0 ELSE Head(bs) + 256 * FromBytesLittle(Tail(bs))

FromBytesLittleSigned(bs) ==
  LET u == FromBytesLittle(bs)
      w == 2 ^ (8 * Len(bs))
  IN IF Len(bs) > 0 /\ u >= w \div 2 THEN u - w ELSE u

RECURSIVE FromBytesBig(_)
FromBytesBig(bs) ==
  IF bs = <<>> THEN 0
  ELSE Head(bs) * 256 ^ (Len(bs) - 1) + FromBytesBig(Tail(bs))

\* line 56: data[6] raises on a buffer of fewer than 7 bytes
ParseFailsBelowSix(bytes) == Len(bytes) < 6
ParseFails(bytes) == Len(bytes) < 7

ParseCurrentReadingsBigEndian(bytes) ==
  [co2 |-> FromBytesBig(Slice(bytes, 0, 2)),
   temperature_x20 |-> FromBytesBig(Slice(bytes, 2, 4)),
   pressure_x10 |-> FromBytesBig(Slice(bytes, 4, 6)),
   humidity |-> bytes[7]]
ParseCurrentReadings(bytes) ==
  [co2 |-> FromBytesLittle(Slice(bytes, 0, 2)),
   temperature_x20 |-> FromBytesLittleSigned(Slice(bytes, 2, 4)),
   pressure_x10 |-> FromBytesLittle(Slice(bytes, 4, 6)),
   humidity |-> bytes[7]]

\* lines 54-55: the true divisions, kept exact as numerator and denominator
TEMPERATURE_DIVISOR == 20
PRESSURE_DIVISOR == 10
Quotient(n, d) == [num |-> n, den |-> d]
Temperature(r) == Quotient(r.temperature_x20, TEMPERATURE_DIVISOR)
Pressure(r) == Quotient(r.pressure_x10, PRESSURE_DIVISOR)

\* The decimal numeral units.tenths, and equality of two quotients
Decimal(units, tenths) == Quotient(10 * units + tenths, 10)
SameNumber(q, r) == q.num * r.den = r.num * q.den

NoReadings == [co2 |-> -1, temperature_x20 |-> 0, pressure_x10 |-> 0, humidity |-> -1]

\* 0x90 0x01 0xD2 0x00 0x6E 0x27 0x32
ExampleBytes == <<144, 1, 210, 0, 110, 39, 50>>

\* No bytes have been read: the name data is not bound yet.
NoData == <<-1>>

\* What client.read_gatt_char may hand back.
ReadBuffers ==
  { ExampleBytes,
    SubSeq(ExampleBytes, 1, 6),
    <<>> }

\* The buffers parse_current_readings is applied to on its own: every
\* sequence of at most MaxBufLen sample bytes, the example and its prefixes.
MaxBufLen == 8
SampleBytes == {0, 128, 255}
DecodeBuffers ==
  UNION {[1..n -> SampleBytes] : n \in 0..MaxBufLen}
    \cup {SubSeq(ExampleBytes, 1, n) : n \in 0..Len(ExampleBytes)}


(***************************************************************************)
(* State                                                                   *)
(***************************************************************************)
VARIABLES
  pc,                   \* position of the single flow of control
  consecutive_failures, \* main_loop, line 333
  needs_pairing,        \* os.environ['ARANET_NEEDS_PAIRING'] == 'true'
  attempt,              \* read_sensor, loop variable of line 190
  device,               \* read_sensor, line 191/194
  client,               \* read_sensor, line 192/206: "none" or "client"
  client_device,        \* the device handle the client was built with
  is_connected,         \* client.is_connected of the current client
  scan_pass,            \* find_aranet4, loop variable of line 133
  connect_try,          \* loop variable of line 214
  disconnect_try,       \* loop variable of line 268
  pending,              \* the exception in flight inside read_sensor
  readings,             \* the value read_sensor returns
  reset_result,         \* the value reset_bluetooth returns
  host_commands,        \* the host commands of this reset, with their outcome
  last_sleep,           \* the sleep of main_loop that ended the cycle before;
                        \* 0 once the next cycle runs
  \* ---- history of the current cycle, attempt and session ----
  attempt_errors,       \* the exception each finished attempt ended with
  raised,               \* the exception read_sensor raised to main_loop
  locate_calls,         \* find_aranet4 calls of this read_sensor call
  device_locate,        \* the find_aranet4 call that returned device
  pairing_evals,        \* evaluations of the flag in this read_sensor call
  found_count,          \* attempts of this call whose scan found the device
  scan_log,             \* per pass of this locate: did it hold the target
  pair_outcome,         \* result of pair_device in this attempt
  reached_connected,    \* a connect of this session succeeded
  connect_calls,        \* client.connect calls of this session
  connected_at_cleanup, \* is_connected when the finally block was entered
  disconnect_calls,     \* client.disconnect calls of this session
  disconnect_oks,       \* those that returned without raising
  soft_result,          \* soft reset of this reset: "none"/"ok"/"failed"
  power_result,         \* power cycle of this reset: "none"/"ok"/"failed"
  reset_done,           \* reset_bluetooth of this cycle: "none"/"ok"/"failed"
  tally_at_reset,       \* consecutive_failures when reset_bluetooth was called
  tally_at_start,       \* consecutive_failures when the last cycle started
  streak,               \* acquisition failures in a row since a cycle that
                        \* started with consecutive_failures = 0; -1: none
  streak_resets,        \* reset_bluetooth calls during that streak
  \* ---- more of the program's state and of its history ----
  data,                 \* read_sensor, line 250: the bytes read
  stale_link,           \* a link opened by an earlier session is still up
  result_at_cleanup,    \* <<pending, readings>> as the finally block began
  enumerated,           \* client.services was searched in this session
  read_calls,           \* client.read_gatt_char calls of this session
  link_at_discover,     \* line 230 found the link "up"/"down"; "unchecked"
  link_at_read,         \* line 247 found the link "up"/"down"; "unchecked"
  cycle,                \* what main_loop did in the cycle that just ended
  meter                 \* calls made by one read_sensor call, over its attempts

prog_vars ==
  <<pc, consecutive_failures, needs_pairing, attempt, device, client,
    client_device, is_connected, scan_pass, connect_try, disconnect_try,
    pending, readings, reset_result, host_commands, last_sleep, data,
    stale_link>>

hist_vars ==
  <<attempt_errors, raised, locate_calls, device_locate, pairing_evals,
    found_count, scan_log, pair_outcome, reached_connected,
    connect_calls, connected_at_cleanup, disconnect_calls, disconnect_oks,
    soft_result, power_result, reset_done, tally_at_reset, tally_at_start,
    streak, streak_resets, result_at_cleanup, enumerated, read_calls,
    link_at_discover, link_at_read, cycle, meter>>

vars == <<prog_vars, hist_vars>>

Errors ==
  {"NoDeviceFound", "PairingFailed", "ConnectFailed", "LostBeforeDiscovery",
   "ServiceNotFound", "CharacteristicNotFound", "LostBeforeRead",
   "ReadFailed", "ParseFailed"}

PairOutcomes == {"paired", "pair_command_failed", "empty_pin", "trust_failed"}

NoCycle ==
  [clean |-> FALSE, posts |-> 0, post_outcome |-> "none",
   acquired |-> NoReadings, submitted |-> NoReadings, alerts |-> 0,
   resets |-> 0]

\* The external calls of read_sensor that a meter can count: discover (line
\* 133), pair_device (line 201), connect (line 215), disconnect (line 271).
Metered == {"discover", "pair_device", "connect", "disconnect"}

NoMeter == [of |-> "none", calls |-> 0]

Count(m, call, n) == IF m.of = call THEN [m EXCEPT !.calls = @ + n] ELSE m

InitAt(start, bytes) ==
  /\ pc = start
  /\ consecutive_failures = 0
  /\ needs_pairing \in BOOLEAN
  /\ attempt = 0
  /\ device = NoDevice
  /\ client = "none"
  /\ client_device = NoDevice
  /\ is_connected = FALSE
  /\ scan_pass = 0
  /\ connect_try = 0
  /\ disconnect_try = 0
  /\ pending = "none"
  /\ readings = NoReadings
  /\ reset_result = FALSE
  /\ host_commands = <<>>
  /\ last_sleep = 0
  /\ attempt_errors = <<>>
  /\ raised = "none"
  /\ locate_calls = 0
  /\ device_locate = 0
  /\ pairing_evals = 0
  /\ found_count = 0
  /\ scan_log = <<>>
  /\ pair_outcome = "not_invoked"
  /\ reached_connected = FALSE
  /\ connect_calls = 0
  /\ connected_at_cleanup = FALSE
  /\ disconnect_calls = 0
  /\ disconnect_oks = 0
  /\ soft_result = "none"
  /\ power_result = "none"
  /\ reset_done = "none"
  /\ tally_at_reset = 0
  /\ tally_at_start = 0
  /\ streak = 0
  /\ streak_resets = 0
  /\ data = bytes
  /\ stale_link = FALSE
  /\ result_at_cleanup = <<"none", NoReadings>>
  /\ enumerated = FALSE
  /\ read_calls = 0
  /\ link_at_discover = "unchecked"
  /\ link_at_read = "unchecked"
  /\ cycle = NoCycle

InitProgram == InitAt("cycle_start", NoData)

Init == InitProgram /\ meter = NoMeter

session_obs ==
  <<data, result_at_cleanup, enumerated, read_calls, link_at_discover,
    link_at_read>>
session_hist ==
  <<pair_outcome, reached_connected, connect_calls, connected_at_cleanup,
    disconnect_calls, disconnect_oks>>
reset_hist == <<soft_result, power_result, reset_done, tally_at_reset>>
loop_hist == <<tally_at_start, streak, streak_resets>>
call_hist ==
  <<attempt_errors, locate_calls, device_locate, pairing_evals, found_count,
    scan_log>>
session_vars ==
  <<client, client_device, is_connected, connect_try, disconnect_try>>
loop_vars == <<consecutive_failures, reset_result, host_commands, last_sleep>>

(***************************************************************************)
(* The locals of read_sensor and of reset_bluetooth, and the history kept  *)
(* about them, end with the call: the main_loop step that consumes the     *)
(* result clears them.                                                     *)
(***************************************************************************)
ClearCall ==
  /\ attempt' = 0
  /\ device' = NoDevice
  /\ client' = "none"
  /\ client_device' = NoDevice
  /\ is_connected' = FALSE
  /\ scan_pass' = 0
  /\ connect_try' = 0
  /\ disconnect_try' = 0
  /\ pending' = "none"
  /\ readings' = NoReadings
  /\ attempt_errors' = <<>>
  /\ locate_calls' = 0
  /\ device_locate' = 0
  /\ pairing_evals' = 0
  /\ found_count' = 0
  /\ scan_log' = <<>>
  /\ pair_outcome' = "not_invoked"
  /\ reached_connected' = FALSE
  /\ connect_calls' = 0
  /\ connected_at_cleanup' = FALSE
  /\ disconnect_calls' = 0
  /\ disconnect_oks' = 0
  /\ data' = NoData
  /\ result_at_cleanup' = <<"none", NoReadings>>
  /\ enumerated' = FALSE
  /\ read_calls' = 0
  /\ link_at_discover' = "unchecked"
  /\ link_at_read' = "unchecked"
  /\ stale_link' = (stale_link \/ is_connected)

ClearReset ==
  /\ reset_result' = FALSE
  /\ host_commands' = <<>>
  /\ soft_result' = "none"
  /\ power_result' = "none"
  /\ reset_done' = "none"
  /\ tally_at_reset' = 0

call_vars ==
  <<attempt, device, scan_pass, pending, readings, session_vars, call_hist,
    session_hist, session_obs>>

(***************************************************************************)
(* main_loop, lines 340-343: a new cycle calls read_sensor.                *)
(***************************************************************************)
CycleStart ==
  /\ pc = "cycle_start"
  /\ pc' = "attempt_start"
  /\ IF consecutive_failures = 0
       THEN streak' = 0 /\ streak_resets' = 0
       ELSE UNCHANGED <<streak, streak_resets>>
  /\ last_sleep' = 0
  /\ tally_at_start' = consecutive_failures
  /\ cycle' = NoCycle
  /\ UNCHANGED <<consecutive_failures, needs_pairing, call_vars, raised,
                 reset_result, host_commands, reset_hist, stale_link>>

(***************************************************************************)
(* read_sensor, lines 190-194: an outer attempt forgets the device and the *)
(* client of the attempt before and calls find_aranet4.                    *)
(***************************************************************************)
AttemptStart ==
  /\ pc = "attempt_start"
  /\ pc' = "scan"
  /\ device' = NoDevice
  /\ device_locate' = 0
  /\ client' = "none"
  /\ client_device' = NoDevice
  /\ is_connected' = FALSE
  /\ connect_try' = 0
  /\ disconnect_try' = 0
  /\ pending' = "none"
  /\ scan_pass' = 0
  /\ scan_log' = <<>>
  /\ locate_calls' = locate_calls + 1
  /\ pair_outcome' = "not_invoked"
  /\ reached_connected' = FALSE
  /\ connect_calls' = 0
  /\ connected_at_cleanup' = FALSE
  /\ disconnect_calls' = 0
  /\ disconnect_oks' = 0
  /\ data' = NoData
  /\ result_at_cleanup' = <<"none", NoReadings>>
  /\ enumerated' = FALSE
  /\ read_calls' = 0
  /\ link_at_discover' = "unchecked"
  /\ link_at_read' = "unchecked"
  /\ stale_link' = (stale_link \/ is_connected)
  /\ UNCHANGED <<needs_pairing, attempt, readings, loop_vars, attempt_errors,
                 raised, pairing_evals, found_count, reset_hist,
                 loop_hist, cycle>>

(***************************************************************************)
(* find_aranet4, lines 133-144: one discovery pass.  The first device of   *)
(* the pass with the target name is returned at once; after the last pass  *)
(* None is returned and read_sensor raises at line 196, outside the inner  *)
(* try, so the finally block is not run.                                   *)
(***************************************************************************)
ScanPass ==
  /\ pc = "scan"
  /\ \E devices \in ScanResults :
       LET found == FirstMatch(devices)
           holds_target == \E i \in 1..Len(devices) : devices[i].name = TARGET_DEVICE
       IN /\ scan_log' = Append(scan_log, holds_target)
          /\ IF found # NoDevice
               THEN /\ device' = found
                    /\ device_locate' = locate_calls
                    /\ found_count' = found_count + 1
                    /\ pc' = "pair_check"
                    /\ UNCHANGED <<scan_pass, pending>>
               ELSE IF scan_pass + 1 < max_scans
                 THEN /\ scan_pass' = scan_pass + 1
                      /\ pc' = "scan"
                      /\ UNCHANGED <<device, device_locate, found_count, pending>>
                 ELSE /\ pending' = "NoDeviceFound"
                      /\ pc' = "attempt_except"
                      /\ UNCHANGED <<device, device_locate, found_count, scan_pass>>
  /\ UNCHANGED <<needs_pairing, attempt, readings, session_vars, loop_vars,
                 attempt_errors, raised, locate_calls, pairing_evals,
                 session_hist, reset_hist, loop_hist, session_obs, stale_link,
                 cycle>>

(***************************************************************************)
(* read_sensor, lines 198-210: the flag is read from the environment in    *)
(* every attempt that found the device; pair_device returns False on any   *)
(* failing step; after a pairing the flag is set to 'false'.  A failed     *)
(* pairing raises before the client is built.                              *)
(***************************************************************************)
\* line 200
NeedsPairing(flag) == flag
\* line 204
FlagAfterPairingKept(flag) == flag
FlagAfterPairing(flag) == FALSE

PairCheck ==
  /\ pc = "pair_check"
  /\ pairing_evals' = pairing_evals + 1
  /\ IF NeedsPairing(needs_pairing)
       THEN \E outcome \in PairOutcomes :
              /\ pair_outcome' = outcome
              /\ IF outcome = "paired"
                   THEN /\ needs_pairing' = FlagAfterPairing(needs_pairing)
                        /\ client' = "client"
                        /\ client_device' = device
                        /\ pc' = "connect"
                        /\ UNCHANGED pending
                   ELSE /\ pending' = "PairingFailed"
                        /\ pc' = "finally"
                        /\ UNCHANGED <<needs_pairing, client,
                                       client_device>>
       ELSE /\ client' = "client"
            /\ client_device' = device
            /\ pc' = "connect"
            /\ UNCHANGED <<needs_pairing, pair_outcome, pending>>
  /\ UNCHANGED <<attempt, device, scan_pass, readings, is_connected,
                 connect_try, disconnect_try, loop_vars, attempt_errors,
                 raised, locate_calls, device_locate, found_count, scan_log,
                 reached_connected, connect_calls, connected_at_cleanup,
                 disconnect_calls, disconnect_oks, reset_hist, loop_hist,
                 session_obs, stale_link, cycle>>

(***************************************************************************)
(* read_sensor, lines 213-223: one client.connect call.  A failure of the  *)
(* last try is re-raised, an earlier one is followed by a 2s sleep.        *)
(***************************************************************************)
\* line 220
IsLastConnectTryLate(try) == try = connect_attempts
IsLastConnectTry(try) == try = connect_attempts - 1

Connect ==
  /\ pc = "connect"
  /\ connect_calls' = connect_calls + 1
  /\ \E ok \in BOOLEAN :
       IF ok
         THEN /\ is_connected' = TRUE
              /\ reached_connected' = TRUE
              /\ pc' = "discover"
              /\ UNCHANGED <<connect_try, pending>>
         ELSE IF IsLastConnectTry(connect_try)
           THEN /\ pending' = "ConnectFailed"
                /\ pc' = "finally"
                /\ UNCHANGED <<connect_try, is_connected, reached_connected>>
           ELSE /\ connect_try' = connect_try + 1
                /\ pc' = "connect"
                /\ UNCHANGED <<pending, is_connected, reached_connected>>
  /\ UNCHANGED <<needs_pairing, attempt, device, scan_pass, readings, client,
                 client_device, disconnect_try, loop_vars, raised, call_hist,
                 pair_outcome, connected_at_cleanup,
                 disconnect_calls, disconnect_oks, reset_hist, loop_hist,
                 session_obs, stale_link, cycle>>

(***************************************************************************)
(* read_sensor, lines 226-241: after the settle delay the link is checked, *)
(* then client.services is searched for the Aranet4 service.               *)
(***************************************************************************)
\* lines 230 and 247: client.is_connected
LinkAliveAssumed(connected) == TRUE
LinkAlive(connected) == connected

Discover ==
  /\ pc = "discover"
  /\ link_at_discover' = IF is_connected THEN "up" ELSE "down"
  /\ IF ~LinkAlive(is_connected)
       THEN /\ pending' = "LostBeforeDiscovery"
            /\ pc' = "finally"
            /\ UNCHANGED enumerated
       ELSE /\ enumerated' = TRUE
            /\ \E has_service \in BOOLEAN :
                 IF has_service
                   THEN pc' = "characteristic" /\ UNCHANGED pending
                   ELSE pending' = "ServiceNotFound" /\ pc' = "finally"
  /\ UNCHANGED <<needs_pairing, attempt, device, scan_pass, readings,
                 session_vars, loop_vars, raised, call_hist, session_hist,
                 reset_hist, loop_hist, data, result_at_cleanup, read_calls,
                 link_at_read, stale_link, cycle>>

(***************************************************************************)
(* read_sensor, lines 244-263: the characteristic is looked up, the link   *)
(* is checked again, the characteristic is read and the bytes are parsed.  *)
(***************************************************************************)
ReadCharacteristic ==
  /\ pc = "characteristic"
  /\ pc' = "finally"
  /\ \E has_char \in BOOLEAN :
       IF ~has_char
         THEN /\ pending' = "CharacteristicNotFound"
              /\ UNCHANGED <<readings, data, read_calls, link_at_read>>
         ELSE /\ link_at_read' = IF is_connected THEN "up" ELSE "down"
              /\ IF ~LinkAlive(is_connected)
                   THEN /\ pending' = "LostBeforeRead"
                        /\ UNCHANGED <<readings, data, read_calls>>
                   ELSE /\ read_calls' = read_calls + 1
                        /\ \E got \in {<<"error">>} \cup
                                       {<<"data", b>> : b \in ReadBuffers} :
                             IF got[1] = "error"
                               THEN /\ pending' = "ReadFailed"
                                    /\ UNCHANGED <<readings, data>>
                               ELSE /\ data' = got[2]
                                    /\ IF ParseFails(got[2])
                                         THEN /\ pending' = "ParseFailed"
                                              /\ UNCHANGED readings
                                         ELSE /\ readings' =
                                                   ParseCurrentReadings(got[2])
                                              /\ UNCHANGED pending
  /\ UNCHANGED <<needs_pairing, attempt, device, scan_pass, session_vars,
                 loop_vars, raised, call_hist, session_hist, reset_hist,
                 loop_hist, result_at_cleanup, enumerated, link_at_discover,
                 stale_link, cycle>>

(***************************************************************************)
(* read_sensor, lines 265-277: the finally block.  Without a client it     *)
(* does nothing.  With one, each round of the loop checks the link: a link *)
(* that is down ends the loop; otherwise client.disconnect is called, a    *)
(* return ends the loop and an exception starts the next round.  An        *)
(* exception of disconnect may or may not have taken the link down.  After *)
(* the loop the exception in flight continues to line 279, or the return   *)
(* at line 261 completes.                                                  *)
(***************************************************************************)
DisconnectOutcomes == {"ok", "error_link_up", "error_link_down"}

AfterFinally(exc) == IF exc = "none" THEN "post_to_server" ELSE "attempt_except"

\* line 270
ShouldDisconnectAlways(connected) == TRUE
ShouldDisconnect(connected) == connected

\* line 274: the break after a disconnect that returned
BreaksAfterDisconnect(outcome) == outcome = "ok"

\* lines 275-277: an exception of disconnect is caught and printed, the
\* exception in flight (or the pending return) is kept
PendingAfterDisconnectRaised(exc, outcome) ==
  IF outcome = "ok" THEN exc ELSE "DisconnectFailed"
PendingAfterDisconnect(exc, outcome) == exc

Finally ==
  /\ pc = "finally"
  /\ IF client = "none"
       THEN /\ pc' = AfterFinally(pending)
            /\ UNCHANGED <<is_connected, disconnect_try, connected_at_cleanup,
                           disconnect_calls, disconnect_oks, pending,
                           result_at_cleanup>>
       ELSE /\ connected_at_cleanup' =
                 IF disconnect_try = 0 THEN is_connected ELSE connected_at_cleanup
            /\ result_at_cleanup' =
                 IF disconnect_try = 0 THEN <<pending, readings>>
                 ELSE result_at_cleanup
            /\ IF ShouldDisconnect(is_connected)
                 THEN \E outcome \in DisconnectOutcomes :
                        /\ disconnect_calls' = disconnect_calls + 1
                        /\ disconnect_oks' =
                             disconnect_oks + (IF outcome = "ok" THEN 1 ELSE 0)
                        /\ is_connected' = (outcome = "error_link_up")
                        /\ pending' = PendingAfterDisconnect(pending, outcome)
                        /\ IF BreaksAfterDisconnect(outcome)
                             THEN /\ pc' = AfterFinally(pending')
                                  /\ UNCHANGED disconnect_try
                             ELSE /\ disconnect_try' = disconnect_try + 1
                                  /\ pc' = IF disconnect_try + 1 < disconnect_retry
                                             THEN "finally"
                                             ELSE AfterFinally(pending')
                 ELSE /\ pc' = AfterFinally(pending)
                      /\ UNCHANGED <<is_connected, disconnect_try,
                                     disconnect_calls, disconnect_oks, pending>>
  /\ UNCHANGED <<needs_pairing, attempt, device, scan_pass, readings,
                 client, client_device, connect_try, loop_vars, raised, call_hist,
                 pair_outcome, reached_connected, connect_calls,
                 reset_hist, loop_hist, data, enumerated, read_calls,
                 link_at_discover, link_at_read, stale_link, cycle>>

(***************************************************************************)
(* The link is the transport's: it can go down at any time while a         *)
(* session holds it.                                                       *)
(***************************************************************************)
LinkDrop ==
  /\ pc \in {"discover", "characteristic", "finally"}
  /\ is_connected
  /\ is_connected' = FALSE
  /\ UNCHANGED <<pc, needs_pairing, attempt, device, scan_pass, pending,
                 readings, client, client_device, connect_try, disconnect_try,
                 loop_vars, data, stale_link, attempt_errors, raised,
                 call_hist, session_hist, reset_hist, loop_hist,
                 result_at_cleanup, enumerated, read_calls, link_at_discover,
                 link_at_read, cycle>>

(***************************************************************************)
(* A link that an ended session left up belongs to no client of the        *)
(* program any more; the transport may still take it down.                 *)
(***************************************************************************)
StaleLinkDrop ==
  /\ stale_link
  /\ stale_link' = FALSE
  /\ UNCHANGED <<pc, consecutive_failures, needs_pairing, call_vars, raised,
                 reset_result, host_commands, last_sleep, reset_hist,
                 loop_hist, cycle>>

(***************************************************************************)
(* read_sensor, lines 279-285: an attempt that raised is followed by a 5s  *)
(* sleep and the next attempt; the last attempt re-raises its exception.   *)
(***************************************************************************)
\* line 285: a bare raise re-raises the exception being handled
PropagatedFirst(errors, current) == errors[1]
Propagated(errors, current) == current

\* line 280
RetriesLeftOneMore(a) == a < max_retries
RetriesLeft(a) == a < max_retries - 1

AttemptExcept ==
  /\ pc = "attempt_except"
  /\ attempt_errors' = Append(attempt_errors, pending)
  /\ IF RetriesLeft(attempt)
       THEN /\ attempt' = attempt + 1
            /\ pc' = "attempt_start"
            /\ UNCHANGED raised
       ELSE /\ raised' = Propagated(attempt_errors', pending)
            /\ pc' = "loop_except"
            /\ UNCHANGED attempt
  /\ UNCHANGED <<needs_pairing, device, scan_pass, pending, readings,
                 session_vars, loop_vars, locate_calls, device_locate,
                 pairing_evals, found_count, scan_log, session_hist,
                 reset_hist, loop_hist, session_obs, stale_link, cycle>>

(***************************************************************************)
(* The environment may fail a submit or a reset only while the counter is  *)
(* below the bound of the model.                                           *)
(***************************************************************************)
SubmitMayFail == consecutive_failures < MaxTally - 1
ResetMayFail == consecutive_failures < MaxTally

(***************************************************************************)
(* post_to_server, lines 69-94: True on status 200, False on any other     *)
(* status and on any exception.  send_error_email, lines 96-126: every     *)
(* exception is caught and printed.                                        *)
(***************************************************************************)
PostOutcomes == {"status_200", "status_other", "exception"}
\* line 86
PostSucceedsUnlessException(outcome) == outcome # "exception"
PostSucceeds(outcome) == outcome = "status_200"

MailOutcomes == {"status_202", "status_other", "exception"}
\* lines 125-126
MailerEscapesOnException(outcome) == outcome = "exception"
MailerEscapes(outcome) == FALSE

\* line 347
TallyAfterSuccessKept(tally) == tally
TallyAfterSuccess(tally) == 0

\* line 349
SleepAfterSuccessShort == ERROR_SLEEP
SleepAfterSuccess == POLLING_INTERVAL

\* Found on the first scan of the first attempt and connected at the first
\* try; the session then reached the return of line 261.
CleanAcquisition ==
  /\ attempt = 0
  /\ scan_log = <<TRUE>>
  /\ connect_calls = 1
  /\ pending = "none"

(***************************************************************************)
(* main_loop, lines 344-351: the readings are posted.  On success the      *)
(* counter is cleared and the loop sleeps for the polling interval; on     *)
(* failure the counter is incremented.                                     *)
(***************************************************************************)
PostToServer ==
  /\ pc = "post_to_server"
  /\ \E outcome \in PostOutcomes :
       /\ IF PostSucceeds(outcome)
         THEN /\ consecutive_failures' = TallyAfterSuccess(consecutive_failures)
              /\ last_sleep' = SleepAfterSuccess
              /\ pc' = "cycle_start"
         ELSE /\ SubmitMayFail
              /\ consecutive_failures' = consecutive_failures + 1
              /\ pc' = "alert_submit"
              /\ UNCHANGED last_sleep
       /\ cycle' = [cycle EXCEPT !.clean = CleanAcquisition,
                                  !.posts = @ + 1,
                                  !.post_outcome = outcome,
                                  !.acquired = readings,
                                  !.submitted = readings]
  /\ streak' = -1
  /\ streak_resets' = 0
  /\ ClearCall
  /\ UNCHANGED <<needs_pairing, raised, reset_result, host_commands,
                 reset_hist, tally_at_start>>

(***************************************************************************)
(* main_loop, lines 352-353: the operator is alerted, the loop sleeps 30s. *)
(* An exception leaving send_error_email here would be caught at line 355. *)
(***************************************************************************)
AlertSubmit ==
  /\ pc = "alert_submit"
  /\ \E mail \in MailOutcomes :
       IF MailerEscapes(mail)
         THEN /\ raised' = "MailerError"
              /\ pc' = "loop_except"
              /\ UNCHANGED last_sleep
         ELSE /\ last_sleep' = ERROR_SLEEP
              /\ pc' = "cycle_start"
              /\ UNCHANGED raised
  /\ cycle' = [cycle EXCEPT !.alerts = @ + 1]
  /\ UNCHANGED <<consecutive_failures, needs_pairing, call_vars,
                 reset_result, host_commands, reset_hist, loop_hist,
                 stale_link>>

(***************************************************************************)
(* main_loop, lines 355-361: an exception of the cycle increments the      *)
(* counter; at the threshold reset_bluetooth is called.                    *)
(***************************************************************************)
\* line 359
ShouldResetAbove(tally) == tally > max_failures_before_reset
ShouldReset(tally) == tally >= max_failures_before_reset

LoopExcept ==
  /\ pc = "loop_except"
  /\ consecutive_failures' = consecutive_failures + 1
  /\ streak' = IF streak >= 0 /\ streak < 3 THEN streak + 1 ELSE -1
  /\ IF ShouldReset(consecutive_failures')
       THEN /\ pc' = "hci_down"
            /\ tally_at_reset' = consecutive_failures'
            /\ streak_resets' = IF streak' >= 0 THEN streak_resets + 1 ELSE 0
            /\ cycle' = [cycle EXCEPT !.resets = @ + 1]
       ELSE /\ pc' = "alert_acquisition"
            /\ streak_resets' = IF streak' >= 0 THEN streak_resets ELSE 0
            /\ UNCHANGED <<tally_at_reset, cycle>>
  /\ ClearCall
  /\ UNCHANGED <<needs_pairing, raised, reset_result, host_commands,
                 last_sleep, soft_result, power_result, reset_done,
                 tally_at_start>>

(***************************************************************************)
(* reset_bluetooth, lines 316-329: hciconfig down, hciconfig up; an        *)
(* exception of either is caught and power_cycle_bluetooth is called.      *)
(***************************************************************************)
\* lines 326-329
OnSoftResetFailureGiveUp == "after_reset"
OnSoftResetFailure == "power_stop"

Ran(cmd, ok) == Append(host_commands, <<cmd, ok>>)

HciDown ==
  /\ pc = "hci_down"
  /\ \E ok \in BOOLEAN :
       /\ host_commands' = Ran("hciconfig_down", ok)
       /\ IF ok
            THEN /\ pc' = "hci_up"
                 /\ UNCHANGED <<soft_result, reset_result>>
            ELSE /\ soft_result' = "failed"
                 /\ pc' = OnSoftResetFailure
                 /\ reset_result' = FALSE
  /\ UNCHANGED <<consecutive_failures, needs_pairing, call_vars, raised,
                 last_sleep, power_result, reset_done, tally_at_reset,
                 loop_hist, stale_link, cycle>>

HciUp ==
  /\ pc = "hci_up"
  /\ \E ok \in BOOLEAN :
       /\ host_commands' = Ran("hciconfig_up", ok)
       /\ IF ok
            THEN /\ soft_result' = "ok"
                 /\ reset_result' = TRUE
                 /\ pc' = "after_reset"
            ELSE /\ soft_result' = "failed"
                 /\ reset_result' = FALSE
                 /\ pc' = OnSoftResetFailure
  /\ UNCHANGED <<consecutive_failures, needs_pairing, call_vars, raised,
                 last_sleep, power_result, reset_done, tally_at_reset,
                 loop_hist, stale_link, cycle>>

(***************************************************************************)
(* power_cycle_bluetooth, lines 289-311: four host commands in a row, each *)
(* with check=True; an exception of any is caught and False is returned,   *)
(* which reset_bluetooth returns in turn.                                  *)
(***************************************************************************)
\* lines 309-311
PowerCycleEscapes(ok) == FALSE

\* check=True: a failing command raises, the commands after it are skipped
OnPowerStepFailureGoOn(next) == next
OnPowerStepFailure(next) == "after_reset"

PowerStep(here, cmd, next) ==
  /\ pc = here
  /\ \E ok \in BOOLEAN :
       /\ host_commands' = Ran(cmd, ok)
       /\ IF ok
            THEN /\ pc' = next
                 /\ IF next = "after_reset"
                      THEN power_result' = "ok" /\ reset_result' = TRUE
                      ELSE power_result' = "running" /\ UNCHANGED reset_result
            ELSE /\ ResetMayFail
                 /\ power_result' = "failed"
                 /\ reset_result' = FALSE
                 /\ pc' = IF PowerCycleEscapes(ok) THEN "crashed"
                          ELSE OnPowerStepFailure(next)
  /\ UNCHANGED <<consecutive_failures, needs_pairing, call_vars, raised,
                 last_sleep, soft_result, reset_done, tally_at_reset,
                 loop_hist, stale_link, cycle>>

\* line 294
PowerStop == PowerStep("power_stop", "systemctl_stop", "power_block")
\* line 298
PowerBlock == PowerStep("power_block", "rfkill_block", "power_unblock")
\* line 300
PowerUnblock == PowerStep("power_unblock", "rfkill_unblock", "power_start")
\* line 304
PowerStart == PowerStep("power_start", "systemctl_start", "after_reset")

(***************************************************************************)
(* main_loop, lines 361-363: the counter is cleared if reset_bluetooth     *)
(* returned True; then a 5s sleep.                                         *)
(***************************************************************************)
\* lines 361-362
TallyAfterResetAlways(ok, tally) == 0
TallyAfterReset(ok, tally) == IF ok THEN 0 ELSE tally

AfterReset ==
  /\ pc = "after_reset"
  /\ consecutive_failures' = TallyAfterReset(reset_result, consecutive_failures)
  /\ reset_done' = IF reset_result THEN "ok" ELSE "failed"
  /\ last_sleep' = RESET_SETTLE
  /\ pc' = "alert_acquisition"
  /\ UNCHANGED <<needs_pairing, call_vars, raised, reset_result,
                 host_commands, soft_result, power_result, tally_at_reset,
                 loop_hist, stale_link, cycle>>

(***************************************************************************)
(* main_loop, lines 365-366: the operator is alerted with the exception,   *)
(* the loop sleeps 30s.  An exception leaving send_error_email here, in    *)
(* the except block, would leave main_loop.                                *)
(***************************************************************************)
AlertAcquisition ==
  /\ pc = "alert_acquisition"
  /\ \E mail \in MailOutcomes :
       IF MailerEscapes(mail)
         THEN /\ pc' = "crashed"
              /\ UNCHANGED last_sleep
         ELSE /\ last_sleep' = ERROR_SLEEP
              /\ pc' = "cycle_start"
  /\ raised' = "none"
  /\ ClearReset
  /\ cycle' = [cycle EXCEPT !.alerts = @ + 1]
  /\ UNCHANGED <<consecutive_failures, needs_pairing, call_vars, loop_hist,
                 stale_link>>

(***************************************************************************)
(* Specifications                                                          *)
(***************************************************************************)
Step ==
  \/ CycleStart /\ UNCHANGED meter
  \/ AttemptStart /\ UNCHANGED meter
  \/ ScanPass /\ UNCHANGED meter
  \/ PairCheck /\ UNCHANGED meter
  \/ Connect /\ UNCHANGED meter
  \/ Discover /\ UNCHANGED meter
  \/ ReadCharacteristic /\ UNCHANGED meter
  \/ Finally /\ UNCHANGED meter
  \/ AttemptExcept /\ UNCHANGED meter
  \/ PostToServer /\ UNCHANGED meter
  \/ AlertSubmit /\ UNCHANGED meter
  \/ LoopExcept /\ UNCHANGED meter
  \/ HciDown /\ UNCHANGED meter
  \/ HciUp /\ UNCHANGED meter
  \/ PowerStop /\ UNCHANGED meter
  \/ PowerBlock /\ UNCHANGED meter
  \/ PowerUnblock /\ UNCHANGED meter
  \/ PowerStart /\ UNCHANGED meter
  \/ AfterReset /\ UNCHANGED meter
  \/ AlertAcquisition /\ UNCHANGED meter

Next ==
  \/ Step
  \/ LinkDrop /\ UNCHANGED meter
  \/ StaleLinkDrop /\ UNCHANGED meter

Spec == Init /\ [][Next]_vars

(***************************************************************************)
(* One call of read_sensor, lines 183-285, from the call of line 343 to    *)
(* its return or its exception, with the calls it makes counted over its   *)
(* attempts: discover (line 133), pair_device (line 201), connect (line    *)
(* 215) and disconnect (line 271).                                         *)
(***************************************************************************)
(***************************************************************************)
(* parse_current_readings, lines 50-67, applied to a buffer on its own:    *)
(* either the readings are returned or the exception of line 67 is raised. *)
(***************************************************************************)
ParseCall ==
  /\ pc = "parse"
  /\ IF ParseFails(data)
       THEN pending' = "ParseFailed" /\ UNCHANGED readings
       ELSE readings' = ParseCurrentReadings(data) /\ UNCHANGED pending
  /\ pc' = "parsed"
  /\ UNCHANGED <<consecutive_failures, needs_pairing, attempt, device,
                 scan_pass, session_vars, reset_result, host_commands,
                 last_sleep, data, stale_link, hist_vars>>

DecodeInit ==
  /\ \E bytes \in DecodeBuffers : InitAt("parse", bytes)
  /\ meter = NoMeter

DecodeSpec == DecodeInit /\ [][ParseCall]_vars

AcquireStep ==
  \/ CycleStart /\ UNCHANGED meter
  \/ AttemptStart /\ UNCHANGED meter
  \/ ScanPass /\ meter' = Count(meter, "discover", 1)
  \/ PairCheck /\ meter' = Count(meter, "pair_device",
                                  IF NeedsPairing(needs_pairing) THEN 1 ELSE 0)
  \/ Connect /\ meter' = Count(meter, "connect", 1)
  \/ Discover /\ UNCHANGED meter
  \/ ReadCharacteristic /\ UNCHANGED meter
  \/ Finally /\ meter' = Count(meter, "disconnect",
                                disconnect_calls' - disconnect_calls)
  \/ AttemptExcept /\ UNCHANGED meter

AcquireNext ==
  \/ AcquireStep
  \/ LinkDrop /\ UNCHANGED meter

AcquireInit == InitProgram /\ meter \in [of : Metered, calls : {0}]

AcquireSpec == AcquireInit /\ [][AcquireNext]_vars

\* Every external call returns and the event loop keeps running the call.
AcquireFairSpec == AcquireSpec /\ WF_vars(AcquireStep)

\* Every external call returns and the event loop keeps running the flow.
FairSpec == Spec /\ WF_vars(Step)

TypeOK ==
  /\ consecutive_failures \in 0..MaxTally
  /\ attempt \in 0..(max_retries - 1)
  /\ pending \in Errors \cup {"none"}
  /\ pc # "crashed"

(***************************************************************************)
(* Properties                                                              *)
(***************************************************************************)
\* The finally block of a session has been left: read_sensor is about to
\* return the readings or to handle the exception of the attempt.
SessionEnded ==
  /\ pc \in {"attempt_except", "post_to_server"}
  /\ client = "client"

\* C1: a session whose connect succeeded has its link down when the session
\* ends, whatever the steps and the disconnect calls reported.
C1_DisconnectedAtSessionEnd ==
  (SessionEnded /\ reached_connected) => ~is_connected

\* C2: exactly one disconnect call has been made when a session ends,
\* whichever step failed and also when none did.
C2_DisconnectExactlyOnce ==
  SessionEnded => disconnect_calls = 1

\* C2 (amended): a session makes at most 3 disconnect calls, none of them
\* after one that returned; it makes none when the link is down as the
\* teardown begins and at least one when the link is up then; a second and a
\* third call follow only calls that raised.
C2_DisconnectBounded ==
  /\ [](/\ disconnect_calls <= 3
        /\ disconnect_oks <= 1
        /\ disconnect_calls - disconnect_oks = disconnect_try
        /\ SessionEnded =>
             /\ ~connected_at_cleanup => disconnect_calls = 0
             /\ connected_at_cleanup => disconnect_calls >= 1)
  /\ [][disconnect_oks = 1 => disconnect_calls' <= disconnect_calls]_vars

C2_Witness ==
  /\ SessionEnded
  /\ disconnect_calls = 3
  /\ disconnect_oks = 1

\* C3: once reset_bluetooth has been called at the threshold and has
\* returned, the counter is 0, whatever it returned.
C3_TallyZeroAfterReset ==
  reset_done # "none" => consecutive_failures = 0

\* C3 (amended): once reset_bluetooth has been called at the threshold and
\* has returned, the counter is 0 if it returned True, and is still the value
\* that triggered the reset, 3 or more, if it returned False.
C3_TallyAfterReset ==
  /\ reset_done = "ok" => consecutive_failures = 0
  /\ reset_done = "failed" =>
       /\ consecutive_failures = tally_at_reset
       /\ consecutive_failures >= 3

C3_Witness ==
  /\ pc = "alert_acquisition"
  /\ reset_done = "failed"
  /\ consecutive_failures = 3

\* C4: counting from a cycle that starts with the counter at 0, the first and
\* the second acquisition failure in a row call reset_bluetooth not at all,
\* and with the third it has been called exactly once.
C4_ResetOnThirdFailure ==
  /\ streak \in {1, 2} => streak_resets = 0
  /\ streak = 3 => streak_resets = 1

C4_Witness ==
  /\ pc = "alert_acquisition"
  /\ streak = 3
  /\ streak_resets = 1
  /\ reset_done # "none"

\* C5: the cycle after one that read and posted successfully starts with the
\* counter at 0, whatever the counter was when the successful cycle started.
C5_TallyZeroAfterSuccess ==
  (pc = "cycle_start" /\ last_sleep = POLLING_INTERVAL) => consecutive_failures = 0

C5_Witness ==
  /\ pc = "cycle_start"
  /\ last_sleep = POLLING_INTERVAL
  /\ tally_at_start > 0
  /\ consecutive_failures = 0

\* C6: whatever a cycle's outcome (posted, post failed, acquisition failed,
\* reset succeeded or failed, alert sent or not), the loop goes on: from every
\* state a new cycle is started later, so new cycles start again and again.
C6_LoopGoesOn ==
  /\ []<>(pc = "attempt_start" /\ attempt = 0)
  /\ [](pc # "crashed")

C6_Witness ==
  /\ pc = "cycle_start"
  /\ last_sleep = ERROR_SLEEP
  /\ consecutive_failures = 3
  /\ tally_at_start = 2

\* C7: read_sensor makes at most 3 attempts; it returns the readings of the
\* first attempt that succeeds; when all 3 fail, it raises the exception of
\* the 3rd; every attempt calls find_aranet4 anew, builds its client on the
\* device that call returned, and reads the pairing flag anew once that call
\* has returned a device.
InAttempt ==
  pc \in {"scan", "pair_check", "connect", "discover", "characteristic",
          "finally", "attempt_except"}

C7_OuterAttempts ==
  /\ attempt <= 2
  /\ locate_calls <= 3
  /\ Len(attempt_errors) <= 3
  /\ InAttempt => locate_calls = attempt + 1
  /\ (InAttempt /\ device # NoDevice) => device_locate = attempt + 1
  /\ client = "client" =>
       /\ client_device = device
       /\ device_locate = locate_calls
  /\ pc \in {"connect", "discover", "characteristic", "finally",
             "attempt_except", "post_to_server", "loop_except"} =>
       pairing_evals = found_count
  /\ pc = "post_to_server" =>
       /\ readings # NoReadings
       /\ Len(attempt_errors) = attempt
       /\ \A i \in 1..Len(attempt_errors) : attempt_errors[i] \in Errors
  /\ pc = "loop_except" =>
       /\ Len(attempt_errors) = 3
       /\ raised = attempt_errors[3]
       /\ locate_calls = 3
       /\ pairing_evals =
            Cardinality({i \in 1..3 : attempt_errors[i] # "NoDeviceFound"})

C7_Witness ==
  /\ pc = "loop_except"
  /\ Len(attempt_errors) = 3
  /\ attempt_errors[1] # attempt_errors[3]
  /\ attempt_errors[2] # attempt_errors[3]
  /\ raised = "ConnectFailed"
  /\ pairing_evals = 3

\* C8: find_aranet4 makes at most 3 passes and stops at the first pass that
\* holds a device with exactly the target name, returning such a device: a
\* pass follows only passes without one, and None is returned only after 3
\* passes without one.  A device that only carries the family marker is
\* never returned.
HoldsNoTarget(log) == \A i \in 1..Len(log) : ~log[i]

C8_LocateStopsAtFirstMatch ==
  /\ Len(scan_log) <= 3
  /\ scan_log # <<>> => HoldsNoTarget(SubSeq(scan_log, 1, Len(scan_log) - 1))
  /\ pc = "scan" => (Len(scan_log) = scan_pass /\ HoldsNoTarget(scan_log))
  /\ (scan_log # <<>> /\ scan_log[Len(scan_log)]) =>
       /\ pc # "scan"
       /\ device # NoDevice
  /\ device # NoDevice =>
       /\ device.name = TARGET_DEVICE
       /\ scan_log # <<>>
       /\ scan_log[Len(scan_log)]
  /\ pending = "NoDeviceFound" =>
       /\ device = NoDevice
       /\ scan_log = <<FALSE, FALSE, FALSE>>

C8_Witness ==
  /\ pc = "pair_check"
  /\ scan_log = <<FALSE, TRUE>>
  /\ device = devTarget

\* C9: pair_device is called only while the pairing flag is set; a pairing
\* that succeeds clears the flag; a cleared flag stays cleared, so that no
\* pairing follows a successful one; a pairing that fails leaves the flag
\* set and fails the attempt before a client is built.
PairingFailedNow == pair_outcome \notin {"not_invoked", "paired"}

C9_PairingOnlyWhileFlagged ==
  /\ [][(pair_outcome' # pair_outcome /\ pair_outcome' # "not_invoked")
          => needs_pairing]_vars
  /\ [][(pair_outcome' # pair_outcome /\ pair_outcome' = "paired")
          => ~needs_pairing']_vars
  /\ [][~needs_pairing => ~needs_pairing']_vars
  /\ [](PairingFailedNow =>
          /\ needs_pairing
          /\ client = "none"
          /\ pending = "PairingFailed"
          /\ connect_calls = 0
          /\ ~reached_connected)

C9_Witness ==
  /\ pc = "connect"
  /\ pair_outcome = "paired"
  /\ ~needs_pairing
  /\ attempt = 1
  /\ attempt_errors = <<"PairingFailed">>

\* C10: when reset_bluetooth has returned, the power cycle has been attempted
\* exactly if the soft reset failed (hciconfig down or hciconfig up failing);
\* the result is True if the soft reset or the power cycle succeeded and
\* False exactly if both failed; no exception leaves reset_bluetooth.
FailedCommand(cmds) ==
  \E i \in 1..Len(host_commands) :
    host_commands[i][1] \in cmds /\ ~host_commands[i][2]

C10_ResetAdapter ==
  /\ pc # "crashed"
  /\ pc \in {"power_stop", "power_block", "power_unblock", "power_start"} =>
       soft_result = "failed"
  /\ pc = "after_reset" =>
       /\ soft_result \in {"ok", "failed"}
       /\ soft_result = "failed" <=> FailedCommand({"hciconfig_down", "hciconfig_up"})
       /\ power_result # "none" <=> soft_result = "failed"
       /\ power_result \in {"none", "ok", "failed"}
       /\ reset_result <=> (soft_result = "ok" \/ power_result = "ok")
       /\ ~reset_result <=> (soft_result = "failed" /\ power_result = "failed")

C10_Witness ==
  /\ pc = "after_reset"
  /\ host_commands[2] = <<"hciconfig_up", FALSE>>
  /\ power_result = "ok"
  /\ reset_result

\* C11: a session makes at most three disconnect calls; when it ends, the
\* exception in flight and the readings are the ones the finally block began
\* with, whatever the disconnect calls reported; an error of disconnect is
\* never the exception of the attempt nor the one main_loop catches.
C11_TeardownKeepsResult ==
  /\ disconnect_calls <= disconnect_retry
  /\ SessionEnded => <<pending, readings>> = result_at_cleanup
  /\ pending # "DisconnectFailed"
  /\ raised # "DisconnectFailed"
  /\ \A i \in 1..Len(attempt_errors) : attempt_errors[i] # "DisconnectFailed"

\* Three disconnect calls have raised and read_sensor still returns readings.
C11_Witness ==
  /\ pc = "post_to_server"
  /\ disconnect_calls = disconnect_retry
  /\ disconnect_oks = 0
  /\ pending = "none"
  /\ readings # NoReadings
  /\ readings = result_at_cleanup[2]

\* C12: while a link opened by an earlier session (of an earlier attempt or
\* of an earlier cycle) is still up, the current session has issued no
\* connect; so at most one link is up at any time.
C12_OneLinkAtATime ==
  stale_link => (connect_calls = 0 /\ ~is_connected)

\* A cycle has ended (main_loop is back at the top of its loop) whose
\* acquisition found the device on the first scan of the first attempt,
\* connected at the first try and returned readings.
CleanCycleEnded ==
  /\ pc = "cycle_start"
  /\ cycle.clean

\* What the cycle did: one post of the readings read_sensor returned, no
\* alert, no reset_bluetooth, then the sleep of the polling interval.
QuietCycle ==
  /\ cycle.posts = 1
  /\ cycle.submitted = cycle.acquired
  /\ cycle.acquired # NoReadings
  /\ cycle.alerts = 0
  /\ cycle.resets = 0
  /\ last_sleep = POLLING_INTERVAL

\* C13 as stated: every cycle with a clean acquisition posts once, alerts
\* nobody, resets nothing and sleeps the polling interval.
C13_CleanCycleIsQuiet ==
  CleanCycleEnded => QuietCycle

\* C13: a cycle with a clean acquisition whose post is answered with status
\* 200 posts the returned readings once, sends no alert, does not call
\* reset_bluetooth and sleeps the polling interval.
C13_CleanAcceptedCycleIsQuiet ==
  (CleanCycleEnded /\ cycle.post_outcome = "status_200") => QuietCycle

C13_Witness ==
  /\ CleanCycleEnded
  /\ cycle.post_outcome = "status_200"
  /\ cycle.submitted = ParseCurrentReadings(ExampleBytes)
  /\ last_sleep = POLLING_INTERVAL

\* C14: a cycle whose acquisition returned readings and whose post was not
\* answered with status 200 (another status or an exception alike) leaves
\* the failure counter one above its value at the start of the cycle, has
\* alerted the operator once and sleeps 30 seconds, not the polling interval.
C14_RejectedSubmit ==
  (pc = "cycle_start" /\ cycle.posts = 1 /\ cycle.post_outcome # "status_200")
    => /\ cycle.acquired # NoReadings
       /\ consecutive_failures = tally_at_start + 1
       /\ cycle.alerts = 1
       /\ last_sleep = ERROR_SLEEP
       /\ last_sleep # POLLING_INTERVAL

C14_Witness ==
  /\ pc = "cycle_start"
  /\ cycle.post_outcome = "exception"
  /\ tally_at_start = 1
  /\ consecutive_failures = 2
  /\ cycle.alerts = 1

\* parse_current_readings has been applied to the example buffer.
ExampleParsed ==
  /\ pc = "parsed"
  /\ data = ExampleBytes

\* C15 as stated: the example bytes give co2 400, temperature 21.0, pressure
\* 1005.4 and humidity 50.
C15_ExampleAsStated ==
  ExampleParsed =>
    /\ pending = "none"
    /\ readings.co2 = 400
    /\ SameNumber(Temperature(readings), Decimal(21, 0))
    /\ SameNumber(Pressure(readings), Decimal(1005, 4))
    /\ readings.humidity = 50

\* C15: every buffer of 7 bytes or more is read as little-endian fields,
\* co2 from bytes 0-1, temperature (signed, over 20) from bytes 2-3,
\* pressure (over 10) from bytes 4-5, humidity from byte 6; the example
\* bytes give co2 400, temperature 10.5, pressure 1009.4 and humidity 50.
C15_DecodeLittleEndian ==
  /\ (pc = "parsed" /\ Len(data) >= 7) =>
       /\ pending = "none"
       /\ readings.co2 = data[1] + 256 * data[2]
       /\ readings.temperature_x20 =
            data[3] + 256 * data[4] - (IF data[4] >= 128 THEN 65536 ELSE 0)
       /\ readings.pressure_x10 = data[5] + 256 * data[6]
       /\ readings.humidity = data[7]
  /\ ExampleParsed =>
       /\ readings.co2 = 400
       /\ SameNumber(Temperature(readings), Decimal(10, 5))
       /\ SameNumber(Pressure(readings), Decimal(1009, 4))
       /\ readings.humidity = 50

C15_Witness ==
  /\ ExampleParsed
  /\ readings.co2 = 400
  /\ readings.temperature_x20 = 210
  /\ readings.pressure_x10 = 10094

\* A session has ended in which read_gatt_char handed back fewer than 7 bytes.
ShortBufferRead ==
  /\ SessionEnded
  /\ data # NoData
  /\ Len(data) < 7

\* C16: a buffer of 0 to 6 bytes makes parse_current_readings raise and gives
\* no readings; the session ends with that exception as the failure of the
\* attempt, and with its link down.
C16_ShortBufferFailsRead ==
  ShortBufferRead =>
    /\ pending = "ParseFailed"
    /\ readings = NoReadings
    /\ pc = "attempt_except"
    /\ ~is_connected

\* C17: a session makes at most three connect calls and none after a connect
\* that succeeded; it fails with the connect error only after three failed
\* connect calls, and then client.services has not been searched and
\* read_gatt_char has not been called.
C17_ConnectAttempts ==
  /\ connect_calls <= connect_attempts
  /\ reached_connected => (pc # "connect" /\ connect_calls = connect_try + 1)
  /\ pending = "ConnectFailed" =>
       /\ connect_calls = connect_attempts
       /\ ~reached_connected
       /\ ~enumerated
       /\ read_calls = 0
       /\ link_at_discover = "unchecked"

C17_Witness ==
  /\ pc = "attempt_except"
  /\ pending = "ConnectFailed"
  /\ connect_calls = connect_attempts
  /\ ~enumerated

\* C18: when the link is down at the check that follows the settle delay,
\* the attempt fails with the lost-connection error, never with the missing
\* service, and client.services is not searched; when the link is down once
\* the characteristic has been found, the attempt fails with the
\* lost-connection error and read_gatt_char is not called.
C18_LostConnection ==
  /\ link_at_discover = "down" =>
       /\ pending = "LostBeforeDiscovery"
       /\ ~enumerated
       /\ read_calls = 0
  /\ link_at_read = "down" =>
       /\ pending = "LostBeforeRead"
       /\ read_calls = 0

\* The link dropped between the service search and the read.
C18_Witness ==
  /\ pc = "attempt_except"
  /\ link_at_discover = "up"
  /\ enumerated
  /\ link_at_read = "down"
  /\ pending = "LostBeforeRead"

\* read_sensor has returned its readings or raised to main_loop.
AcquireDone == pc \in {"post_to_server", "loop_except"}

\* C19: a call of read_sensor comes to its return or to its exception, and
\* over its attempts it makes at most 3 find_aranet4 calls (9 discover
\* passes), 3 pair_device calls, 9 connect calls and 9 disconnect calls.
C19_AcquireTerminates ==
  /\ <>AcquireDone
  /\ [](/\ locate_calls <= max_retries
        /\ meter.of = "discover" => meter.calls <= max_retries * max_scans
        /\ meter.of = "pair_device" => meter.calls <= max_retries
        /\ meter.of = "connect" => meter.calls <= max_retries * connect_attempts
        /\ meter.of = "disconnect" =>
             meter.calls <= max_retries * disconnect_retry)

\* Three sessions, each with three raising disconnect calls.
C19_Witness ==
  /\ pc = "loop_except"
  /\ locate_calls = max_retries
  /\ meter = [of |-> "disconnect", calls |-> max_retries * disconnect_retry]

\* The commands of power_cycle_bluetooth in the order of lines 294-304, and
\* those of them that this reset has run, with their outcome.
PowerOrder ==
  <<"systemctl_stop", "rfkill_block", "rfkill_unblock", "systemctl_start">>

IsPowerCommand(c) == \E i \in 1..Len(PowerOrder) : c[1] = PowerOrder[i]

PowerRan == SelectSeq(host_commands, IsPowerCommand)

\* The command undo has not succeeded after the last success of command done.
StillInEffect(ran, done, undo) ==
  \E i \in 1..Len(ran) :
    /\ ran[i] = <<done, TRUE>>
    /\ \A j \in (i + 1)..Len(ran) : ran[j] # <<undo, TRUE>>

=============================================================================
